---- MODULE Spec2Model ----
(***************************************************************************)
(* Model of the irrigation control engine (package icomputer).             *)
(*                                                                         *)
(* Time is a naive local datetime, counted in seconds from Sunday          *)
(* 00:00:00 of week 0.                                                     *)
(***************************************************************************)
EXTENDS Integers, Sequences, FiniteSets, TLC

VARIABLES
    tm,         \* timer handed to the timer functions (SpecTimer)
    t_now,      \* instant at which the timer functions are evaluated (SpecTimer)
    t_open      \* result of should_be_open() at t_now: "True", "False", or "unset" before the call

timer_vars == <<tm, t_now, t_open>>

VARIABLES
    pc,                     \* "run": main_loop is ticking; "crashed": an exception left main_loop; "quit": sys.exit()
    now,                    \* datetime.datetime.now()
    ticks,                  \* main_loop: ticks
    timers,                 \* IComputer.timers
    isopen,                 \* Faucet.isopen, per faucet
    all_alone,              \* Faucet.all_alone
    all_alone_all_time,     \* Faucet.all_alone_all_time
    pump_isopen,            \* Faucet.isopen of the fertilization pumps
    disabled,               \* IComputer.disabled
    disabled_faucets,       \* IComputer.disabled_faucets
    disable_fertilization,  \* IComputer.disable_fertilization
    duration_correction,    \* IComputer.duration_correction, in hundredths (100 is 1.0)
    mode,                   \* IComputer.mode
    monitor_leaks,          \* IComputer.monitor_leaks
    old_should_be_open,     \* main_loop: old_should_be_open
    count,                  \* Counter.count, per counter of this node
    leak_check_counter_water \* main_loop: leak_check_counter_water

engine_vars == <<pc, now, ticks, timers, isopen, all_alone, all_alone_all_time, pump_isopen,
                 disabled, disabled_faucets, disable_fertilization, duration_correction,
                 mode, monitor_leaks, old_should_be_open, count, leak_check_counter_water>>

VARIABLES
    commands_file,                  \* IComputer.commands_file: TRUE when set, FALSE when None
    commands_file_timestamp,        \* IComputer.commands_file_timestamp (0: a clock reading)
    state_commands_file_timestamp,  \* IComputer.state_commands_file_timestamp
    timers_file_timestamp,          \* IComputer.timers_file_timestamp
    counters_file_timestamp         \* IComputer.counters_file_timestamp

stamp_vars == <<commands_file, commands_file_timestamp, state_commands_file_timestamp,
                timers_file_timestamp, counters_file_timestamp>>

VARIABLES
    cmd_exists,     \* whether actions/<node>_commands.txt exists
    cmd_file,       \* its lines
    cmd_mtime,      \* its st_mtime
    state_file,     \* lines of actions/irrigation-state-commands.txt
    state_mtime,
    timers_exists,  \* whether data/timer-list.txt exists
    timer_rows,     \* its rows
    timers_mtime,
    counters_mtime, \* st_mtime of data/counter-list.txt
    ini_disabled,   \* option disabled of computer-config.txt: "absent", "True" or "False"
    status_file,    \* names in actions/<node>_status.txt
    status_writes,  \* number of times the status file was written
    actions_log,    \* lines of actions/<node>_actions.txt
    emails,         \* counters for which 'leak detected' was sent during the last tick
    device,         \* pulse count held by the counter device
    link_ok,        \* whether the serial link of the counter answers
    writes          \* number of file writes made by the outside so far

disk_vars == <<cmd_exists, cmd_file, cmd_mtime, state_file, state_mtime, timers_exists,
               timer_rows, timers_mtime, counters_mtime, ini_disabled, status_file,
               status_writes, actions_log>>

env_vars == <<emails, device, link_ok, writes>>

VARIABLES
    applied,        \* history: commands applied by the last load of the commands file
    applied_tick,   \* history: value of ticks when they were applied
    tick_seen,      \* history: ticks, time, timers, mode, correction, the timestamps kept and
                    \* the files on disk at the start of the last tick (of the last load
                    \* of the commands file in SpecCommands)
    skipped,        \* history: the faucets a tick did not open because they are disabled
    alone_marked    \* history: Faucet.all_alone after the alone accounting of the last tick
                    \* ('not opening', also a line of the daily report), with the tick

hist_vars == <<applied, applied_tick, tick_seen, skipped, alone_marked>>

VARIABLES
    faucet_obj,     \* a faucet object whose methods are called one at a time (SpecFaucet)
    counter_obj,    \* a CounterArduino object whose methods are called one at a time
                    \* (SpecCounter)
    call            \* the last method call made on them: its arguments, what it returned,
                    \* what it wrote to the relay board and to the action log, the mails
                    \* it sent, and the object before the call

bench_vars == <<faucet_obj, counter_obj, call>>

vars == <<timer_vars, engine_vars, stamp_vars, disk_vars, env_vars, hist_vars, bench_vars>>

Hour == 60 * 60
Day == 24 * Hour
Week == 7 * Day

(***************************************************************************)
(* Clock and calendar utilities (timers.py)                                *)
(***************************************************************************)

\* datetime.isoweekday(): Monday = 1 ... Sunday = 7
isoweekday(dt) ==
    LET d == (dt \div Day) % 7
    IN  IF d = 0 THEN 7 ELSE d

sane_day_from_isoweekday(day) ==
    LET day1 == day + 1
    IN  IF day1 = 8 THEN 1 ELSE day1

sane_day(dt) == sane_day_from_isoweekday(isoweekday(dt))

next_weekday(d, weekday) ==
    LET days_ahead == weekday - sane_day(d)
    IN  d + (IF days_ahead < 0 THEN days_ahead + 7 ELSE days_ahead) * Day

\* datetime.date(): the midnight that starts the day of dt
date_of(dt) == dt - (dt % Day)

\* datetime.datetime.combine(date, time(hour, minute))
combine(date, hour, minute) == date + hour * Hour + minute * 60

\* A start taken on a fixed date instead of the date of test_time.
time_in_range_fixed_date(start_hour, start_minute, duration, test_time) ==
    LET start_time == combine(0, start_hour, start_minute)
    IN  IF start_time > test_time THEN FALSE
        ELSE IF start_time + duration * 60 < test_time THEN FALSE
        ELSE TRUE

\* A window that ends before its last instant.
time_in_range_open_end(start_hour, start_minute, duration, test_time) ==
    LET start_time == combine(date_of(test_time), start_hour, start_minute)
    IN  IF start_time > test_time THEN FALSE
        ELSE IF start_time + duration * 60 <= test_time THEN FALSE
        ELSE TRUE

time_in_range(start_hour, start_minute, duration, test_time) ==
    LET start_time == combine(date_of(test_time), start_hour, start_minute)
    IN  IF start_time > test_time THEN FALSE
        ELSE IF start_time + duration * 60 < test_time THEN FALSE
        ELSE TRUE

(***************************************************************************)
(* Timers (timers.py).  One record shape for the three classes.            *)
(***************************************************************************)

\* Timer.__init__ (base class, used for a row whose type is unknown)
Timer(duration, cfaucet) ==
    [timer_type |-> "generic", duration |-> duration, faucet |-> cfaucet,
     start_day |-> 0, hour |-> 0, minute |-> 0, overnight |-> FALSE,
     start_datetime |-> 0, end_datetime |-> 0, is_manual |-> FALSE]

\* WeeklyTimer.__init__: overnight iff start_time + duration ends on another day
WeeklyTimer(duration, cfaucet, start_day, hour, minute) ==
    LET test_start == combine(0, hour, minute)
        test_end == test_start + duration * 60
    IN  [timer_type |-> "weekly", duration |-> duration, faucet |-> cfaucet,
         start_day |-> start_day, hour |-> hour, minute |-> minute,
         overnight |-> (date_of(test_end) # date_of(test_start)),
         start_datetime |-> 0, end_datetime |-> 0, is_manual |-> FALSE]

\* SingleTimer.__init__
SingleTimer(duration, cfaucet, start_datetime, is_manual) ==
    [timer_type |-> "single", duration |-> duration, faucet |-> cfaucet,
     start_day |-> 0, hour |-> 0, minute |-> 0, overnight |-> FALSE,
     start_datetime |-> start_datetime,
     end_datetime |-> start_datetime + duration * 60,
     is_manual |-> is_manual]

WeeklyTimer_should_be_open(t, tnow) ==
    IF ~t.overnight
    THEN IF sane_day(tnow) # t.start_day THEN FALSE
         ELSE IF ~time_in_range(t.hour, t.minute, t.duration, tnow) THEN FALSE
         ELSE TRUE
    ELSE LET next_start == combine(date_of(next_weekday(tnow, t.start_day)),
                                   t.hour, t.minute)
             next_end == next_start + t.duration * 60
         IN  IF tnow < next_start THEN FALSE
             ELSE IF tnow > next_end THEN FALSE
             ELSE TRUE

SingleTimer_should_be_open(t, tnow) ==
    IF tnow >= t.start_datetime
    THEN IF tnow <= t.end_datetime THEN TRUE ELSE FALSE
    ELSE FALSE

\* should_remove of the three classes
should_remove(t, tnow) ==
    IF t.timer_type = "single"
    THEN IF tnow <= t.end_datetime THEN FALSE ELSE TRUE
    ELSE FALSE

(***************************************************************************)
(* Configuration: the rows of faucet-list.txt, pump-list.txt and           *)
(* counter-list.txt, and computer_name of computer-config.txt.             *)
(***************************************************************************)

computer_name == "pi1"

\* faucets in the order of their rows
FaucetOrder == <<"roses", "lawn", "far">>
FaucetNames == {FaucetOrder[i] : i \in 1..Len(FaucetOrder)}

PumpOrder == <<"fert">>
PumpNames == {PumpOrder[i] : i \in 1..Len(PumpOrder)}

\* read_counters keeps the counters whose computer is this node
CounterNames == {"c1"}

faucet_computer(f) == IF f = "far" THEN "pi2" ELSE "pi1"
faucet_counter(f) == IF f \in PumpNames THEN "none" ELSE IF f = "far" THEN "c2" ELSE "c1"
default_duration(f) == IF f = "lawn" THEN 2 ELSE 1
fertilization_pump(f) == IF f = "roses" THEN "fert" ELSE "none"
fertilize(f) == IF f = "roses" THEN "yes" ELSE "no"

\* Faucet.is_local
is_local(f) == faucet_computer(f) = computer_name

(***************************************************************************)
(* The engine's objects as one record, threaded through the handlers.      *)
(***************************************************************************)

Engine ==
    [pc |-> pc, timers |-> timers, isopen |-> isopen, all_alone |-> all_alone,
     all_alone_all_time |-> all_alone_all_time, pump_isopen |-> pump_isopen,
     disabled |-> disabled, disabled_faucets |-> disabled_faucets,
     disable_fertilization |-> disable_fertilization,
     duration_correction |-> duration_correction, mode |-> mode,
     monitor_leaks |-> monitor_leaks, count |-> count,
     ini_disabled |-> ini_disabled, actions_log |-> actions_log,
     status_file |-> status_file, status_writes |-> status_writes,
     old_should_be_open |-> old_should_be_open]

\* CounterArduino.get_count: the device's answer, or the stored count when
\* the serial link gives nothing (counts_per_liter = 1)
get_count(st, c) == IF link_ok[c] THEN device[c] ELSE st.count[c]

\* Faucet.get_total_water reads the counter when the faucet has a counter of
\* this node and was alone all the time
reads_counter(st, f) == faucet_counter(f) \in CounterNames /\ st.all_alone_all_time[f]

read_counter_of(st, f) ==
    IF reads_counter(st, f)
    THEN [st EXCEPT !.count[faucet_counter(f)] = get_count(st, faucet_counter(f))]
    ELSE st

log_line(st, action, f) ==
    [st EXCEPT !.actions_log = Append(@, [action |-> action, faucet |-> f])]

\* A close after which the faucet is taken to be open.
Faucet_close_left_open(st, f, force) == [st EXCEPT !.isopen[f] = TRUE]

\* Faucet.close
Faucet_close(st, f, force) ==
    IF ~force /\ ~st.isopen[f] THEN st
    ELSE log_line(read_counter_of([st EXCEPT !.isopen[f] = FALSE], f),
                  IF is_local(f) THEN "closed" ELSE "remotely closed", f)

\* Faucet.open
Faucet_open(st, f, force) ==
    IF ~force /\ st.isopen[f] THEN st
    ELSE log_line(read_counter_of([st EXCEPT !.isopen[f] = TRUE,
                                             !.all_alone[f] = TRUE,
                                             !.all_alone_all_time[f] = TRUE], f),
                  IF is_local(f) THEN "opened" ELSE "remotely opened", f)

\* Faucet.close and Faucet.open of a pump (a Faucet without counter, on this node)
Pump_close(st, p, force) ==
    IF ~force /\ ~st.pump_isopen[p] THEN st
    ELSE log_line([st EXCEPT !.pump_isopen[p] = FALSE], "closed", p)

Pump_open(st, p, force) ==
    IF ~force /\ st.pump_isopen[p] THEN st
    ELSE log_line([st EXCEPT !.pump_isopen[p] = TRUE], "opened", p)

RECURSIVE close_faucets(_, _)
close_faucets(st, fs) ==
    IF fs = <<>> THEN st
    ELSE close_faucets(Faucet_close(st, Head(fs), TRUE), Tail(fs))

RECURSIVE close_pumps(_, _)
close_pumps(st, ps) ==
    IF ps = <<>> THEN st
    ELSE close_pumps(Pump_close(st, Head(ps), TRUE), Tail(ps))

\* IComputer.close_all, with the faucets and pumps loaded at the time
close_all(st, fs, ps) == close_pumps(close_faucets(st, fs), ps)

\* IComputer.delete_timers of the manual Single timers (of one faucet, or all)
is_manual_single(t) == t.timer_type = "single" /\ t.is_manual

\* A deletion that takes the Single timers of the timers file as well.
delete_single_timers(st, fs) ==
    LET keep(t) == ~(t.timer_type = "single" /\ t.faucet \in fs)
    IN  [st EXCEPT !.timers = SelectSeq(@, keep)]

delete_manual_timers(st, fs) ==
    LET keep(t) == ~(is_manual_single(t) /\ t.faucet \in fs)
    IN  [st EXCEPT !.timers = SelectSeq(@, keep)]

(***************************************************************************)
(* Transient commands (IComputer.read_manual_commands)                     *)
(***************************************************************************)

manual_command(st, c, tnow) ==
    CASE c.verb = "open" ->
            IF c.arg \notin FaucetNames THEN st
            ELSE [st EXCEPT !.timers =
                     Append(@, SingleTimer(default_duration(c.arg), c.arg, tnow, TRUE))]
      [] c.verb = "close" ->
            IF c.arg \notin FaucetNames THEN st
            ELSE delete_manual_timers(Faucet_close(st, c.arg, FALSE), {c.arg})
      [] c.verb = "closeall" ->
            delete_manual_timers(close_all(st, FaucetOrder, PumpOrder), FaucetNames)
      [] c.verb = "disable" ->
            IF c.arg # computer_name THEN st
            ELSE delete_manual_timers(
                     close_all([st EXCEPT !.disabled = TRUE, !.ini_disabled = "True"],
                               FaucetOrder, PumpOrder),
                     FaucetNames)
      [] c.verb = "enable" ->
            IF c.arg # computer_name THEN st
            ELSE [st EXCEPT !.disabled = FALSE, !.ini_disabled = "False"]
      [] c.verb = "mode" -> [st EXCEPT !.mode = c.arg]
      [] c.verb = "quit" ->
            [close_all(st, FaucetOrder, PumpOrder) EXCEPT !.pc = "quit"]
      [] OTHER -> st

RECURSIVE read_manual_commands(_, _, _)
read_manual_commands(st, lines, tnow) ==
    IF lines = <<>> \/ st.pc = "quit" THEN st
    ELSE read_manual_commands(manual_command(st, Head(lines), tnow), Tail(lines), tnow)

(***************************************************************************)
(* Persistent state overrides (init_state_params, read_state_commands)     *)
(***************************************************************************)

\* str.lower() on the arguments that occur
lower(s) ==
    CASE s = "True" -> "true"
      [] s = "False" -> "false"
      [] s = "Lawn" -> "lawn"
      [] OTHER -> s

\* param[-1] == '%' and float(param[:-1]) on the arguments that occur
ends_with_percent(s) == s \in {"50%", "200%", "0%", "1001%"}

percent_of(s) ==
    CASE s = "50%" -> 50
      [] s = "200%" -> 200
      [] s = "0%" -> 0
      [] s = "1001%" -> 1001
      [] OTHER -> 100

init_state_params(st) ==
    [st EXCEPT !.disabled = FALSE, !.disable_fertilization = {},
               !.duration_correction = 100, !.disabled_faucets = {}]

state_command(st, c) ==
    LET param == lower(c.arg)
    IN  CASE c.verb = "disable_computer" ->
                IF param # computer_name THEN st
                ELSE delete_manual_timers(
                         close_all([st EXCEPT !.disabled = TRUE], FaucetOrder, PumpOrder),
                         FaucetNames)
          [] c.verb = "monitor_leaks" ->
                [st EXCEPT !.monitor_leaks = (param = "True")]
          [] c.verb = "disable_line" ->
                [st EXCEPT !.disabled_faucets = @ \cup {param}]
          [] c.verb = "disable_fertilization" ->
                [st EXCEPT !.disable_fertilization = @ \cup {param}]
          [] c.verb = "set_percent" ->
                IF ~ends_with_percent(param) THEN st
                ELSE IF percent_of(param) < 0 \/ percent_of(param) > 1000 THEN st
                ELSE [st EXCEPT !.duration_correction = percent_of(param)]
          [] c.verb = "mode" -> [st EXCEPT !.mode = param]
          [] OTHER -> st

RECURSIVE state_lines(_, _)
state_lines(st, lines) ==
    IF lines = <<>> THEN st
    ELSE state_lines(state_command(st, Head(lines)), Tail(lines))

read_state_commands(st, lines) == state_lines(init_state_params(st), lines)

(***************************************************************************)
(* Configuration loading (read_timers, __init__)                           *)
(***************************************************************************)

\* IComputer.read_timers: close everything, build the timers of the rows
\* whose faucet is known
read_timers(st, rows, fs, ps) ==
    LET known(t) == t.faucet \in FaucetNames
    IN  [close_all(st, fs, ps) EXCEPT !.timers = SelectSeq(rows, known)]

\* IComputer.__init__ followed by the first lines of main_loop, on the files
\* as they are on disk.  No faucet object exists before read_faucets; the
\* pumps are not loaded yet when read_timers and read_pumps close everything.
boot(ini, log, status, nwrites, rows, lines) ==
    LET fresh ==
            [pc |-> "run", timers |-> <<>>,
             isopen |-> [f \in FaucetNames |-> FALSE],
             all_alone |-> [f \in FaucetNames |-> FALSE],
             all_alone_all_time |-> [f \in FaucetNames |-> TRUE],
             pump_isopen |-> [p \in PumpNames |-> FALSE],
             disabled |-> (ini = "True"),
             disabled_faucets |-> {}, disable_fertilization |-> {},
             duration_correction |-> 100, mode |-> "auto", monitor_leaks |-> FALSE,
             count |-> [c \in CounterNames |-> 0],
             ini_disabled |-> ini, actions_log |-> log, status_file |-> status,
             status_writes |-> nwrites,
             old_should_be_open |-> {}]
        \* read_timers runs before read_counters: its closes read no counter
        no_counters == [fresh EXCEPT !.all_alone_all_time = [f \in FaucetNames |-> FALSE]]
        after_timers == [read_timers(no_counters, rows, FaucetOrder, <<>>)
                            EXCEPT !.all_alone_all_time = fresh.all_alone_all_time]
        after_pumps == close_all(after_timers, FaucetOrder, <<>>)
    IN  read_state_commands(after_pumps, lines)

(***************************************************************************)
(* The tick loop (IComputer.main_loop)                                     *)
(***************************************************************************)

leak_check_nunber_tests == 4
leak_check_interval == 5 * 60

\* should_be_open() of the timer's class
timer_should_be_open(t, tnow) ==
    IF t.timer_type = "weekly" THEN WeeklyTimer_should_be_open(t, tnow)
    ELSE SingleTimer_should_be_open(t, tnow)

\* time_to_close() of the timer's class, in seconds
time_to_close(t, tnow) ==
    IF t.timer_type = "weekly"
    THEN combine(date_of(tnow), t.hour, t.minute) + t.duration * 60 - tnow
    ELSE t.end_datetime - tnow

\* main_loop calls ctimer.should_be_open(self.duration_correction), and the
\* should_be_open methods of timers.py take no argument besides self: the
\* call raises TypeError.  The first loop makes the call for the first timer
\* it does not skip; when it skips them all (Weekly timers in manual mode),
\* the fertilizer loop makes it for the first timer.  (Without the argument,
\* Timer.should_be_open of a row of unknown type raises ValueError.)
tick_raises(ts, md) == Len(ts) > 0

\* indexes of the timers for which the first loop finds should_be_open
open_timers(ts, md, tnow) ==
    {i \in 1..Len(ts) : /\ ~(md = "manual" /\ ts[i].timer_type = "weekly")
                        /\ timer_should_be_open(ts[i], tnow)}

\* should_be_open: the faucets that should be open
desired_open(ts, md, tnow) == {ts[i].faucet : i \in open_timers(ts, md, tnow)}

\* len(num_open[counter]): one entry per timer that should be open
num_open(ts, md, tnow, c) ==
    Cardinality({i \in open_timers(ts, md, tnow) : faucet_counter(ts[i].faucet) = c})

\* indexes of the timers put on delete_list
delete_list(ts, md, tnow) ==
    {i \in 1..Len(ts) : /\ ~(md = "manual" /\ ts[i].timer_type = "weekly")
                        /\ should_remove(ts[i], tnow)}

fertilizer_should_be_closed(ts, tnow) ==
    {fertilization_pump(ts[i].faucet) : i \in
        {j \in 1..Len(ts) : /\ timer_should_be_open(ts[j], tnow)
                            /\ fertilization_pump(ts[j].faucet) \in PumpNames
                            /\ \/ fertilize(ts[j].faucet) # "yes"
                               \/ time_to_close(ts[j], tnow) < 10 * 60}}

fertilizer_should_be_open(ts, tnow) ==
    {fertilization_pump(ts[i].faucet) : i \in
        {j \in 1..Len(ts) : /\ timer_should_be_open(ts[j], tnow)
                            /\ fertilization_pump(ts[j].faucet) \in PumpNames
                            /\ fertilize(ts[j].faucet) = "yes"
                            /\ time_to_close(ts[j], tnow) >= 10 * 60}}
    \ fertilizer_should_be_closed(ts, tnow)

\* A pump loop that opens every pump asked for.
RECURSIVE set_pumps_all_asked(_, _, _)
set_pumps_all_asked(st, ps, to_open) ==
    IF ps = <<>> THEN st
    ELSE LET p == Head(ps)
             st1 == IF p \in to_open
                    THEN Pump_open(st, p, FALSE)
                    ELSE Pump_close(st, p, FALSE)
         IN  set_pumps_all_asked(st1, Tail(ps), to_open)

RECURSIVE set_pumps(_, _, _)
set_pumps(st, ps, to_open) ==
    IF ps = <<>> THEN st
    ELSE LET p == Head(ps)
             st1 == IF p \in to_open
                    THEN IF p \in st.disable_fertilization THEN st
                         ELSE Pump_open(st, p, FALSE)
                    ELSE Pump_close(st, p, FALSE)
         IN  set_pumps(st1, Tail(ps), to_open)

\* the status file is written when the desired set changed
write_status(st, desired) ==
    IF desired # st.old_should_be_open
    THEN [st EXCEPT !.status_file = desired, !.status_writes = @ + 1,
                    !.old_should_be_open = desired]
    ELSE st

\* alone accounting
mark_alone(st, ts, md, tnow) ==
    LET crowded == {f \in desired_open(ts, md, tnow) :
                        num_open(ts, md, tnow, faucet_counter(f)) > 1}
    IN  [st EXCEPT !.all_alone = [f \in FaucetNames |-> f \notin crowded],
                   !.all_alone_all_time =
                        [f \in FaucetNames |-> IF f \in crowded THEN FALSE ELSE @[f]]]

\* open or close one faucet as needed
reconcile(st, f, desired) ==
    IF st.isopen[f]
    THEN IF f \notin desired THEN Faucet_close(st, f, TRUE) ELSE st
    ELSE IF f \notin desired THEN st
         ELSE IF st.disabled /\ is_local(f) THEN st
         ELSE IF f \in st.disabled_faucets /\ is_local(f) THEN st
         ELSE Faucet_open(st, f, TRUE)

\* the faucets the reconciliation of tick tk leaves closed with a 'not
\* opening' record: closed, wanted open, of this node, and disabled
RECURSIVE skip_lines(_, _, _, _)
skip_lines(st, fs, desired, tk) ==
    IF fs = <<>> THEN <<>>
    ELSE LET f == Head(fs)
             skip == /\ ~st.isopen[f]
                     /\ f \in desired
                     /\ is_local(f)
                     /\ (st.disabled \/ f \in st.disabled_faucets)
         IN  (IF skip THEN <<[tick |-> tk, faucet |-> f]>> ELSE <<>>)
                \o skip_lines(st, Tail(fs), desired, tk)

RECURSIVE reconcile_all(_, _, _)
reconcile_all(st, fs, desired) ==
    IF fs = <<>> THEN st
    ELSE reconcile_all(reconcile(st, Head(fs), desired), Tail(fs), desired)

delete_timers(st, idx) ==
    LET kept == {i \in 1..Len(st.timers) : i \notin idx}
        nth(k) == CHOOSE i \in kept : Cardinality({j \in kept : j <= i}) = k
    IN  [st EXCEPT !.timers = [k \in 1..Cardinality(kept) |-> st.timers[nth(k)]]]

\* the water logs written every 60 ticks read every counter of this node
water_logs(st, tk) ==
    IF tk % 60 = 0
    THEN [st EXCEPT !.count = [c \in CounterNames |-> get_count(st, c)]]
    ELSE st

\* the reads kept for a counter after appending one
leak_window(cleak, read) ==
    LET cleak1 == Append(cleak, read)
    IN  IF Len(cleak1) > leak_check_nunber_tests THEN Tail(cleak1) ELSE cleak1

\* num_leak: the number of leading strictly positive deltas
num_leak(cleak) ==
    LET stops == {i \in 1..(Len(cleak) - 1) : cleak[i + 1] - cleak[i] <= 0}
    IN  IF stops = {} THEN Len(cleak) - 1
        ELSE (CHOOSE i \in stops : \A j \in stops : i <= j) - 1

\* A leak reported after two positive deltas.
leak_detected_early(cleak) == num_leak(cleak) >= leak_check_nunber_tests - 2

leak_detected(cleak) == num_leak(cleak) >= leak_check_nunber_tests - 1

\* counters the leak check of this tick reads (the others are skipped)
leak_checked(st, ts, md, tnow, tk) ==
    IF tk % leak_check_interval # 0 THEN {}
    ELSE {c \in CounterNames : ~(~st.monitor_leaks /\ num_open(ts, md, tnow, c) > 0)}

(***************************************************************************)
(* Hot reload at the end of the tick                                       *)
(***************************************************************************)

\* the commands file is loaded when its mtime differs from the one kept
commands_changed == commands_file /\ cmd_exists /\ commands_file_timestamp # cmd_mtime

reload_commands(st, tnow) ==
    IF commands_changed THEN read_manual_commands(st, cmd_file, tnow) ELSE st

reload_state(st) ==
    IF state_commands_file_timestamp # state_mtime
    THEN read_state_commands(st, state_file)
    ELSE st

reload_timers(st) ==
    IF timers_file_timestamp # timers_mtime
    THEN read_timers(st, timer_rows, FaucetOrder, PumpOrder)
    ELSE st

\* the engine's variables take the values of record st
Becomes(st) ==
    /\ pc' = st.pc
    /\ timers' = st.timers
    /\ isopen' = st.isopen
    /\ all_alone' = st.all_alone
    /\ all_alone_all_time' = st.all_alone_all_time
    /\ pump_isopen' = st.pump_isopen
    /\ disabled' = st.disabled
    /\ disabled_faucets' = st.disabled_faucets
    /\ disable_fertilization' = st.disable_fertilization
    /\ duration_correction' = st.duration_correction
    /\ mode' = st.mode
    /\ monitor_leaks' = st.monitor_leaks
    /\ count' = st.count
    /\ ini_disabled' = st.ini_disabled
    /\ actions_log' = st.actions_log
    /\ status_file' = st.status_file
    /\ status_writes' = st.status_writes
    /\ old_should_be_open' = st.old_should_be_open

\* what a tick finds when it starts
seen_now ==
    [tick |-> ticks, at |-> now, timers |-> timers, mode |-> mode,
     correction |-> duration_correction,
     commands_file |-> commands_file, cmd_exists |-> cmd_exists, cmd_mtime |-> cmd_mtime,
     cmd_stamp |-> commands_file_timestamp, state_stamp |-> state_commands_file_timestamp,
     timers_exists |-> timers_exists, timers_stamp |-> timers_file_timestamp,
     timers_mtime |-> timers_mtime, counters_mtime |-> counters_mtime]

\* One iteration of the loop of main_loop.  The daily report sends mail only
\* and the faucets, counters and pumps files are not rewritten here.
TickWith(bound, raised) ==
    /\ pc = "run"
    /\ ticks < bound
    /\ tick_seen' = seen_now
    /\ IF raised
       THEN /\ pc' = "crashed"
            /\ UNCHANGED <<now, ticks, timers, isopen, all_alone, all_alone_all_time,
                           pump_isopen, disabled, disabled_faucets, disable_fertilization,
                           duration_correction, mode, monitor_leaks, old_should_be_open,
                           count, leak_check_counter_water>>
            /\ UNCHANGED <<stamp_vars, disk_vars, env_vars, applied, applied_tick, skipped,
                           alone_marked>>
       ELSE LET desired == desired_open(timers, mode, now)
                s2 == set_pumps(Engine, PumpOrder, fertilizer_should_be_open(timers, now))
                s3 == write_status(s2, desired)
                s4 == mark_alone(s3, timers, mode, now)
                s5 == reconcile_all(s4, FaucetOrder, desired)
                s6 == delete_timers(s5, delete_list(timers, mode, now))
                s7 == water_logs(s6, ticks)
                checked == leak_checked(s7, timers, mode, now, ticks)
                s8 == [s7 EXCEPT !.count = [c \in CounterNames |->
                                    IF c \in checked THEN get_count(s7, c) ELSE @[c]]]
                water == [c \in CounterNames |->
                            IF c \in checked
                            THEN leak_window(leak_check_counter_water[c], s8.count[c])
                            ELSE leak_check_counter_water[c]]
                s9 == reload_commands(s8, now)
                \* os.stat of a timers file that is missing raises FileNotFoundError
                s10 == IF s9.pc = "quit" THEN s9
                       ELSE IF ~timers_exists THEN [reload_state(s9) EXCEPT !.pc = "crashed"]
                       ELSE reload_timers(reload_state(s9))
            IN  /\ Becomes(s10)
                /\ leak_check_counter_water' = water
                /\ emails' = {c \in checked : leak_detected(water[c])}
                /\ commands_file_timestamp' =
                        IF ~commands_file \/ ~cmd_exists THEN 0
                        ELSE IF s9.pc = "quit" THEN commands_file_timestamp
                        ELSE cmd_mtime
                /\ state_commands_file_timestamp' =
                        IF s9.pc = "quit" THEN state_commands_file_timestamp ELSE state_mtime
                /\ timers_file_timestamp' =
                        IF s10.pc # "run" THEN timers_file_timestamp ELSE timers_mtime
                /\ applied' = IF commands_changed THEN cmd_file ELSE applied
                /\ applied_tick' = IF commands_changed THEN ticks ELSE applied_tick
                /\ skipped' = skipped \o skip_lines(s4, FaucetOrder, desired, ticks)
                /\ alone_marked' = s4.all_alone
                /\ ticks' = IF s10.pc # "run" THEN ticks ELSE ticks + 1
                /\ now' = IF s10.pc # "run" THEN now ELSE now + 1
                /\ UNCHANGED <<commands_file, counters_file_timestamp, cmd_exists, cmd_file,
                               cmd_mtime, state_file, state_mtime, timers_exists, timer_rows,
                               timers_mtime, counters_mtime, device, link_ok, writes>>
    /\ UNCHANGED <<bench_vars, timer_vars>>

\* One iteration of the loop as main_loop makes it
Tick(bound) == TickWith(bound, tick_raises(timers, mode))

\* One iteration of the loop in which should_be_open() and time_to_close()
\* are called as timers.py defines them, without the argument
TickPlain(bound) == TickWith(bound, FALSE)

(***************************************************************************)
(* Faucet objects (faucet.py, numatofaucet.py).  A method works on the     *)
(* object f and yields the object after the call with what the call        *)
(* returned, wrote to the relay board, wrote to the action log and mailed. *)
(***************************************************************************)

\* Faucet.__init__ at instant tnow
Faucet(name, cname, read_only, counter, normal_flow, tnow) ==
    [cls |-> "Faucet", name |-> name, computer_name |-> cname, read_only |-> read_only,
     counter |-> counter, normal_flow |-> normal_flow, isopen |-> FALSE,
     all_alone |-> FALSE, all_alone_all_time |-> TRUE, flow_counts |-> <<>>,
     open_time |-> tnow, start_water |-> -1]

\* NumatoFaucet.__init__ (port_name is found when the first write is made)
NumatoFaucet(name, cname, read_only, counter, normal_flow, tnow) ==
    [Faucet(name, cname, read_only, counter, normal_flow, tnow) EXCEPT !.cls = "NumatoFaucet"]

\* Faucet.is_local of an object
object_is_local(f) == f.computer_name = computer_name

\* Faucet.get_faucet_counter: the counter, when this node has it
get_faucet_counter(f) == f.counter # "none" /\ f.counter \in CounterNames

\* Faucet.get_current_water, with reading the answer of the counter's get_count
get_current_water(f, reading) == IF get_faucet_counter(f) THEN reading ELSE -1

\* Faucet.get_median_flow, in halves: np.median of an even number of reads
\* is the mean of the two in the middle (-2 stands for -1)
get_median_flow(f) ==
    LET less(a, b) == a < b
        s == SortSeq(f.flow_counts, less)
        n == Len(s)
    IN  IF f.counter = "none" THEN -2
        ELSE IF n < 1 THEN -2
        ELSE IF n % 2 = 1 THEN 2 * s[(n + 1) \div 2]
        ELSE s[n \div 2] + s[n \div 2 + 1]

\* Faucet.get_total_water
get_total_water(f, reading, tnow) ==
    IF f.counter = "none" THEN -1
    ELSE IF f.all_alone_all_time THEN get_current_water(f, reading) - f.start_water
    ELSE IF get_median_flow(f) = -2 THEN -1
    ELSE (get_median_flow(f) * (tnow - f.open_time)) \div 120

notice(subject, f) == [subject |-> subject, faucet |-> f.name]

\* the checks of Faucet.close on the water and the median flow of the session
flow_checks(f, total_water, med_flow) ==
    LET zero == IF total_water > -1 /\ total_water <= 10
                THEN {notice("faucet not opening", f)} ELSE {}
        high == IF \/ med_flow * 100 > f.normal_flow * 2 * 115
                   \/ med_flow > 2 * (f.normal_flow + 4)
                THEN {notice("high flow for faucet", f)} ELSE {}
        low ==  IF \/ med_flow * 10 < f.normal_flow * 2 * 8
                   \/ med_flow < 2 * (f.normal_flow - 4)
                THEN {notice("low flow for faucet", f)} ELSE {}
    IN  zero \cup (IF f.normal_flow > 0 /\ med_flow > -2 THEN high \cup low ELSE {})

\* Mails sent without waiting for the faucet to have been open 120 seconds.
flow_notices_at_once(f, total_water, med_flow, tnow, monitor) ==
    IF ~get_faucet_counter(f) THEN {}
    ELSE IF monitor THEN {}
    ELSE flow_checks(f, total_water, med_flow)

\* the mails of Faucet.close: zero water, too high flow, too low flow
flow_notices(f, total_water, med_flow, tnow, monitor) ==
    IF ~get_faucet_counter(f) THEN {}
    ELSE IF monitor THEN {}
    ELSE IF ~(tnow - f.open_time > 120) THEN {}
    ELSE flow_checks(f, total_water, med_flow)

\* a call that changed nothing and returned False (water: the total water a
\* close writes to the action log; reading: the answer of the counter's
\* get_count during the call)
nothing_done(f) ==
    [f |-> f, ret |-> FALSE, relay |-> <<>>, logged |-> <<>>, sent |-> {}, water |-> -1,
     reading |-> -1]

\* Faucet.open of an object
FaucetObject_open(f, force, reading, tnow) ==
    IF ~force /\ f.isopen THEN nothing_done(f)
    ELSE [f |-> [f EXCEPT !.isopen = TRUE, !.all_alone = TRUE, !.all_alone_all_time = TRUE,
                          !.flow_counts = <<>>, !.open_time = tnow,
                          !.start_water = get_current_water(f, reading)],
          ret |-> FALSE, relay |-> <<>>,
          logged |-> <<IF object_is_local(f) THEN "opened" ELSE "remotely opened">>,
          sent |-> {}, water |-> -1, reading |-> reading]

\* Faucet.close of an object (the water summary file is written, not read)
FaucetObject_close(f, force, reading, tnow, monitor) ==
    IF ~force /\ ~f.isopen THEN nothing_done(f)
    ELSE LET f1 == [f EXCEPT !.isopen = FALSE]
             total_water == get_total_water(f1, reading, tnow)
             med_flow == get_median_flow(f1)
         IN  [f |-> [f1 EXCEPT !.flow_counts = <<>>],
              ret |-> FALSE, relay |-> <<>>,
              logged |-> <<IF object_is_local(f) THEN "closed" ELSE "remotely closed">>,
              sent |-> flow_notices(f1, total_water, med_flow, tnow, monitor),
              water |-> total_water, reading |-> reading]

\* NumatoFaucet.write_relay: the command, and whether the port took it
write_relay(relay_cmd, ok) == [cmd |-> relay_cmd, ok |-> ok]

\* An open that writes to the relay board whatever node owns the faucet.
NumatoFaucet_open_any_node(f, force, reading, tnow, ok) ==
    LET r == FaucetObject_open(f, FALSE, reading, tnow)
    IN  [r EXCEPT !.ret = ok, !.relay = <<write_relay("on", ok)>>]

\* NumatoFaucet.open
NumatoFaucet_open(f, force, reading, tnow, ok) ==
    IF f.read_only THEN nothing_done(f)
    ELSE IF ~force /\ f.isopen THEN nothing_done(f)
    ELSE LET r == FaucetObject_open(f, FALSE, reading, tnow)
         IN  IF object_is_local(f)
             THEN [r EXCEPT !.f.isopen = IF ok THEN @ ELSE FALSE,
                            !.ret = ok,
                            !.relay = <<write_relay("on", ok)>>]
             ELSE [r EXCEPT !.ret = TRUE]

\* A close that leaves isopen as the close set it when the write failed.
NumatoFaucet_close_keeps_attempt(f, force, reading, tnow, monitor, ok) ==
    IF f.read_only THEN nothing_done(f)
    ELSE IF ~force /\ ~f.isopen THEN nothing_done(f)
    ELSE LET r == FaucetObject_close(f, FALSE, reading, tnow, monitor)
         IN  IF object_is_local(f)
             THEN [r EXCEPT !.ret = ok, !.relay = <<write_relay("off", ok)>>]
             ELSE [r EXCEPT !.ret = TRUE]

\* NumatoFaucet.close
NumatoFaucet_close(f, force, reading, tnow, monitor, ok) ==
    IF f.read_only THEN nothing_done(f)
    ELSE IF ~force /\ ~f.isopen THEN nothing_done(f)
    ELSE LET r == FaucetObject_close(f, FALSE, reading, tnow, monitor)
         IN  IF object_is_local(f)
             THEN [r EXCEPT !.f.isopen = IF ok THEN @ ELSE TRUE,
                            !.ret = ok,
                            !.relay = <<write_relay("off", ok)>>]
             ELSE [r EXCEPT !.ret = TRUE]

\* open and close of the object's class
open_of(f, force, reading, tnow, ok) ==
    IF f.cls = "NumatoFaucet" THEN NumatoFaucet_open(f, force, reading, tnow, ok)
    ELSE FaucetObject_open(f, force, reading, tnow)

close_of(f, force, reading, tnow, monitor, ok) ==
    IF f.cls = "NumatoFaucet" THEN NumatoFaucet_close(f, force, reading, tnow, monitor, ok)
    ELSE FaucetObject_close(f, force, reading, tnow, monitor)

\* Faucet.add_flow_count, with cflow the flow the counter holds
add_flow_count(f, cflow) ==
    IF ~f.all_alone THEN f
    ELSE IF ~get_faucet_counter(f) THEN f
    ELSE [f EXCEPT !.flow_counts = Append(@, cflow)]

(***************************************************************************)
(* Objects under test: their inputs and the record of the last call        *)
(***************************************************************************)

MaxSamples == 3
MaxFaucetClock == 2
FaucetClockStep == 61

\* flows the counter may hold, and answers of its get_count
FlowReads == {-1, 28, 29, 30, 45}
WaterReads == {0, 20}

FaucetObjects ==
    { Faucet("lawn", computer_name, FALSE, "c1", 20, 0),
      Faucet("lawn", computer_name, FALSE, "c1", 40, 0),
      Faucet("lawn", computer_name, FALSE, "c1", -1, 0),
      Faucet("lawn", computer_name, FALSE, "c1", 0, 0),
      Faucet("lawn", computer_name, FALSE, "none", 20, 0),
      Faucet("far", "pi2", FALSE, "c2", 20, 0),
      NumatoFaucet("roses", computer_name, FALSE, "none", 20, 0),
      NumatoFaucet("roses", computer_name, TRUE, "none", 20, 0),
      NumatoFaucet("far", "pi2", FALSE, "c2", 20, 0) }

\* CounterArduino.__init__ at instant tnow, up to its call of clear_count;
\* count = 0 is set by Counter.__init__; flow is kept as the fraction the
\* code computes
CounterArduino(tnow) ==
    [count |-> 0, last_water_read |-> -1, last_water_time |-> tnow,
     flow |-> [num |-> -1, den |-> 1], serial |-> "None"]

MIN_FLOW_INTERVAL == 45
counts_per_liter == 1

\* CounterArduino.open_serial: the port is kept once it was opened
open_serial(c, port_ok) ==
    IF c.serial # "None" THEN c
    ELSE [c EXCEPT !.serial = IF port_ok THEN "open" ELSE "None"]

\* what the device sends back: its count as a decimal number, nothing within
\* the timeout, or a line that is no decimal number
Replies == {"number", "nothing", "garbage"}

\* A read that takes a failed answer for a count of 0.
CounterArduino_get_count_zero(c, port_ok, reply, pulses, tnow) ==
    LET c1 == open_serial(c, port_ok)
    IN  IF c1.serial = "None" \/ reply # "number"
        THEN [c |-> [c1 EXCEPT !.count = 0], ret |-> 0, failed |-> TRUE]
        ELSE [c |-> [c1 EXCEPT !.count = pulses \div counts_per_liter],
              ret |-> pulses \div counts_per_liter, failed |-> FALSE]

\* A read that computes the first flow from the unset last read.
CounterArduino_get_count_unseeded(c, port_ok, reply, pulses, tnow) ==
    LET c1 == open_serial(c, port_ok)
    IN  IF c1.serial = "None" THEN [c |-> c1, ret |-> c1.count, failed |-> TRUE]
        ELSE IF reply # "number" THEN [c |-> c1, ret |-> c1.count, failed |-> TRUE]
        ELSE LET c2 == [c1 EXCEPT !.count = pulses \div counts_per_liter]
                 time_delta == (tnow - c2.last_water_time) % Day
                 c3 == IF time_delta > MIN_FLOW_INTERVAL
                       THEN [c2 EXCEPT !.flow = [num |-> (c2.count - c2.last_water_read) * 60,
                                                 den |-> time_delta],
                                       !.last_water_time = tnow,
                                       !.last_water_read = c2.count]
                       ELSE c2
             IN  [c |-> c3, ret |-> c3.count, failed |-> FALSE]

\* CounterArduino.get_count, the device holding pulses at instant tnow
CounterArduino_get_count(c, port_ok, reply, pulses, tnow) ==
    LET c1 == open_serial(c, port_ok)
    IN  IF c1.serial = "None" THEN [c |-> c1, ret |-> c1.count, failed |-> TRUE]
        ELSE IF reply # "number" THEN [c |-> c1, ret |-> c1.count, failed |-> TRUE]
        ELSE LET c2 == [c1 EXCEPT !.count = pulses \div counts_per_liter]
                 time_delta == (tnow - c2.last_water_time) % Day
                 last_read == IF c2.last_water_read = -1 THEN c2.count
                              ELSE c2.last_water_read
                 c3 == IF time_delta > MIN_FLOW_INTERVAL
                       THEN [c2 EXCEPT !.flow = [num |-> (c2.count - last_read) * 60,
                                                 den |-> time_delta],
                                       !.last_water_time = tnow,
                                       !.last_water_read = c2.count]
                       ELSE c2
             IN  [c |-> c3, ret |-> c3.count, failed |-> FALSE]

\* CounterArduino.clear_count: the device is told to start from 0 again and
\* is read; cleared tells whether the command was written
CounterArduino_clear_count(c, port_ok, reply, tnow) ==
    LET c1 == open_serial(c, port_ok)
    IN  IF c1.serial = "None" THEN [c |-> c1, ret |-> c1.count, failed |-> TRUE,
                                    cleared |-> FALSE]
        ELSE LET r == CounterArduino_get_count(c1, port_ok, reply, 0, tnow)
             IN  [c |-> r.c, ret |-> r.ret, failed |-> r.failed, cleared |-> TRUE]

no_call ==
    [op |-> "none", force |-> FALSE, ret |-> FALSE, relay |-> <<>>, logged |-> <<>>,
     sent |-> {}, before |-> Faucet("lawn", computer_name, FALSE, "c1", 20, 0),
     port |-> TRUE, at |-> 0, water |-> -1, reading |-> -1]

\* no method call is made on the objects outside their own specifications
idle_bench ==
    /\ faucet_obj = Faucet("lawn", computer_name, FALSE, "c1", 20, 0)
    /\ counter_obj = CounterArduino(0)
    /\ call = no_call

(***************************************************************************)
(* Construction and restart                                                *)
(***************************************************************************)

no_tick ==
    [tick |-> -1, at |-> -1, timers |-> <<>>, mode |-> "auto", correction |-> 100,
     commands_file |-> FALSE, cmd_exists |-> FALSE, cmd_mtime |-> 0, cmd_stamp |-> 0,
     state_stamp |-> 0, timers_exists |-> TRUE, timers_stamp |-> 0, timers_mtime |-> 0,
     counters_mtime |-> 0]

\* The process starts at instant start on the files as they are on disk.
Start(start) ==
    /\ now' = start
    /\ ticks' = 0
    /\ leak_check_counter_water' = [c \in CounterNames |-> <<>>]
    /\ emails' = {}
    /\ Becomes(boot(ini_disabled, actions_log, status_file, status_writes,
                    timer_rows, state_file))
    /\ commands_file' = cmd_exists
    /\ commands_file_timestamp' = IF cmd_exists THEN cmd_mtime ELSE 0
    /\ state_commands_file_timestamp' = state_mtime
    /\ timers_file_timestamp' = timers_mtime
    /\ counters_file_timestamp' = counters_mtime
    /\ applied' = <<>>
    /\ applied_tick' = -1
    /\ tick_seen' = no_tick
    /\ skipped' = <<>>
    /\ alone_marked' = [f \in FaucetNames |-> TRUE]

\* The state after IComputer() at instant start, on the given files
Constructed(start, ini, exists, lines, rows) ==
    LET st == boot(ini, <<>>, {}, 0, rows, lines)
    IN  /\ device = [c \in CounterNames |-> 0]
        /\ link_ok = [c \in CounterNames |-> TRUE]
        /\ writes = 0
        /\ emails = {}
        /\ cmd_exists = exists
        /\ cmd_file = <<>>
        /\ cmd_mtime = 1
        /\ state_file = lines
        /\ state_mtime = 1
        /\ timers_exists = TRUE
        /\ timer_rows = rows
        /\ timers_mtime = 1
        /\ counters_mtime = 1
        /\ now = start
        /\ ticks = 0
        /\ leak_check_counter_water = [c \in CounterNames |-> <<>>]
        /\ pc = st.pc
        /\ timers = st.timers
        /\ isopen = st.isopen
        /\ all_alone = st.all_alone
        /\ all_alone_all_time = st.all_alone_all_time
        /\ pump_isopen = st.pump_isopen
        /\ disabled = st.disabled
        /\ disabled_faucets = st.disabled_faucets
        /\ disable_fertilization = st.disable_fertilization
        /\ duration_correction = st.duration_correction
        /\ mode = st.mode
        /\ monitor_leaks = st.monitor_leaks
        /\ count = st.count
        /\ ini_disabled = st.ini_disabled
        /\ actions_log = st.actions_log
        /\ status_file = st.status_file
        /\ status_writes = st.status_writes
        /\ old_should_be_open = st.old_should_be_open
        /\ commands_file = exists
        /\ commands_file_timestamp = (IF exists THEN 1 ELSE 0)
        /\ state_commands_file_timestamp = 1
        /\ timers_file_timestamp = 1
        /\ counters_file_timestamp = 1
        /\ applied = <<>>
        /\ applied_tick = -1
        /\ tick_seen = no_tick
        /\ skipped = <<>>
        /\ alone_marked = [f \in FaucetNames |-> TRUE]

(***************************************************************************)
(* Spec: the engine with its files edited from outside                     *)
(***************************************************************************)

MaxTicks == 4
MaxWrites == 2
MaxRestarts == 1

Tuesday == 2 * Day

cmd(verb, arg) == [verb |-> verb, arg |-> arg]

CommandFiles ==
    { <<cmd("open", "roses")>>,
      <<cmd("open", "roses"), cmd("open", "roses")>>,
      <<cmd("close", "roses")>>,
      <<cmd("closeall", "x")>>,
      <<cmd("disable", computer_name)>>,
      <<cmd("enable", computer_name)>>,
      <<cmd("mode", "manual")>>,
      <<cmd("quit", "x")>> }

StateFiles ==
    { <<>>,
      <<cmd("set_percent", "50%")>>,
      <<cmd("set_percent", "0%")>>,
      <<cmd("disable_line", "Lawn")>>,
      <<cmd("monitor_leaks", "True")>>,
      <<cmd("mode", "manual")>>,
      <<cmd("disable_computer", computer_name)>> }

TimerFiles ==
    { <<>>,
      <<WeeklyTimer(60, "roses", 3, 7, 0)>>,
      <<Timer(30, "roses")>>,
      <<WeeklyTimer(60, "roses", 3, 7, 0), SingleTimer(30, "lawn", Tuesday + 7 * Hour, FALSE)>> }

Init ==
    /\ tm = WeeklyTimer(60, "roses", 3, 7, 0)
    /\ t_now = 0
    /\ t_open = "unset"
    /\ idle_bench
    /\ \E ini \in {"absent", "True"}, exists \in BOOLEAN,
          lines \in {<<>>, <<cmd("set_percent", "50%")>>},
          rows \in {<<>>, <<WeeklyTimer(60, "roses", 3, 7, 0)>>, <<Timer(30, "roses")>>} :
            Constructed(Tuesday + 7 * Hour, ini, exists, lines, rows)

\* the outside writes the commands file
WriteCommands ==
    /\ writes < MaxWrites
    /\ \E lines \in CommandFiles :
        /\ cmd_file' = lines
        /\ cmd_exists' = TRUE
        /\ cmd_mtime' = cmd_mtime + 1
    /\ writes' = writes + 1
    /\ UNCHANGED <<bench_vars, timer_vars, engine_vars, stamp_vars, hist_vars, emails, device, link_ok,
                   state_file, state_mtime, timers_exists, timer_rows, timers_mtime,
                   counters_mtime, ini_disabled, status_file, status_writes, actions_log>>

\* the outside removes the commands file
RemoveCommands ==
    /\ writes < MaxWrites
    /\ cmd_exists
    /\ cmd_exists' = FALSE
    /\ writes' = writes + 1
    /\ UNCHANGED <<bench_vars, timer_vars, engine_vars, stamp_vars, hist_vars, emails, device, link_ok,
                   cmd_file, cmd_mtime, state_file, state_mtime, timers_exists, timer_rows,
                   timers_mtime, counters_mtime, ini_disabled, status_file, status_writes,
                   actions_log>>

\* the outside writes the state commands file
WriteStateFile ==
    /\ writes < MaxWrites
    /\ \E lines \in StateFiles :
        /\ state_file' = lines
        /\ state_mtime' = state_mtime + 1
    /\ writes' = writes + 1
    /\ UNCHANGED <<bench_vars, timer_vars, engine_vars, stamp_vars, hist_vars, emails, device, link_ok,
                   cmd_exists, cmd_file, cmd_mtime, timers_exists, timer_rows, timers_mtime,
                   counters_mtime, ini_disabled, status_file, status_writes, actions_log>>

\* the outside writes the timers file
WriteTimersFile ==
    /\ writes < MaxWrites
    /\ \E rows \in TimerFiles :
        /\ timer_rows' = rows
        /\ timers_exists' = TRUE
        /\ timers_mtime' = timers_mtime + 1
    /\ writes' = writes + 1
    /\ UNCHANGED <<bench_vars, timer_vars, engine_vars, stamp_vars, hist_vars, emails, device, link_ok,
                   cmd_exists, cmd_file, cmd_mtime, state_file, state_mtime, counters_mtime,
                   ini_disabled, status_file, status_writes, actions_log>>

\* the outside removes the timers file
RemoveTimersFile ==
    /\ writes < MaxWrites
    /\ timers_exists
    /\ timers_exists' = FALSE
    /\ writes' = writes + 1
    /\ UNCHANGED <<bench_vars, timer_vars, engine_vars, stamp_vars, hist_vars, emails, device, link_ok,
                   cmd_exists, cmd_file, cmd_mtime, state_file, state_mtime, timer_rows,
                   timers_mtime, counters_mtime, ini_disabled, status_file, status_writes,
                   actions_log>>

\* the outside rewrites the counters file (with the same rows)
WriteCountersFile ==
    /\ writes < MaxWrites
    /\ counters_mtime' = counters_mtime + 1
    /\ writes' = writes + 1
    /\ UNCHANGED <<bench_vars, timer_vars, engine_vars, stamp_vars, hist_vars, emails, device, link_ok,
                   cmd_exists, cmd_file, cmd_mtime, state_file, state_mtime, timers_exists,
                   timer_rows, timers_mtime, ini_disabled, status_file, status_writes,
                   actions_log>>

\* the process is started again: IComputer() and main_loop() on the files on
\* disk (read_timers raises when the timers file is missing)
Restart ==
    /\ writes < MaxWrites + MaxRestarts
    /\ timers_exists
    /\ writes' = IF writes < MaxWrites THEN MaxWrites ELSE writes + 1
    /\ Start(now)
    /\ UNCHANGED <<bench_vars, timer_vars, device, link_ok, cmd_exists, cmd_file, cmd_mtime, state_file,
                   state_mtime, timers_exists, timer_rows, timers_mtime, counters_mtime>>

Next ==
    \/ Tick(MaxTicks)
    \/ WriteCommands
    \/ RemoveCommands
    \/ WriteStateFile
    \/ WriteTimersFile
    \/ RemoveTimersFile
    \/ WriteCountersFile
    \/ Restart

Spec == Init /\ [][Next]_vars

(***************************************************************************)
(* SpecLeak: the engine with no timer, long enough for five leak checks,   *)
(* and a water counter that moves                                          *)
(***************************************************************************)

MaxLeakTicks == 1201
MaxCount == 3

InitLeak ==
    /\ tm = WeeklyTimer(60, "roses", 3, 7, 0)
    /\ t_now = 0
    /\ t_open = "unset"
    /\ idle_bench
    /\ Constructed(Tuesday + 7 * Hour, "absent", TRUE, <<>>, <<>>)

\* between two leak checks
before_leak_check == pc = "run" /\ ticks % leak_check_interval = 0

\* water passes through the counter
DeviceAdvance ==
    /\ before_leak_check
    /\ \E c \in CounterNames :
        /\ device[c] < MaxCount
        /\ device' = [device EXCEPT ![c] = @ + 1]
    /\ UNCHANGED <<bench_vars, timer_vars, engine_vars, stamp_vars, disk_vars, hist_vars, emails,
                   link_ok, writes>>

\* the counter device restarts and counts from 0 again
DeviceReset ==
    /\ before_leak_check
    /\ \E c \in CounterNames :
        /\ device[c] = MaxCount
        /\ device' = [device EXCEPT ![c] = 0]
    /\ UNCHANGED <<bench_vars, timer_vars, engine_vars, stamp_vars, disk_vars, hist_vars, emails,
                   link_ok, writes>>

\* the serial link of the counter goes down or comes back
LinkFlip ==
    /\ before_leak_check
    /\ \E c \in CounterNames : link_ok' = [link_ok EXCEPT ![c] = ~@]
    /\ UNCHANGED <<bench_vars, timer_vars, engine_vars, stamp_vars, disk_vars, hist_vars, emails,
                   device, writes>>

NextLeak == Tick(MaxLeakTicks) \/ DeviceAdvance \/ DeviceReset \/ LinkFlip

SpecLeak == InitLeak /\ [][NextLeak]_vars

(***************************************************************************)
(* SpecLeakSteps: five leak checks with a faucet of the counter wanted     *)
(* open over the second one (lawn from 07:04 to 07:06), with               *)
(* should_be_open() called as timers.py defines it                         *)
(***************************************************************************)

IrrigationRows == <<SingleTimer(2, "lawn", Tuesday + 7 * Hour + 4 * 60, FALSE)>>

InitLeakSteps ==
    /\ tm = WeeklyTimer(60, "roses", 3, 7, 0)
    /\ t_now = 0
    /\ t_open = "unset"
    /\ idle_bench
    /\ Constructed(Tuesday + 7 * Hour, "absent", TRUE, <<>>, IrrigationRows)

NextLeakSteps == TickPlain(MaxLeakTicks) \/ DeviceAdvance

SpecLeakSteps == InitLeakSteps /\ [][NextLeakSteps]_vars

(***************************************************************************)
(* SpecCommands: read_manual_commands applied to a constructed engine      *)
(* whose timers come from the timers file, as time passes                  *)
(***************************************************************************)

MaxLoads == 3
MaxClockSteps == 3
ClockStep == 20 * 60

InitCommands ==
    /\ tm = WeeklyTimer(60, "roses", 3, 7, 0)
    /\ t_now = 0
    /\ t_open = "unset"
    /\ idle_bench
    /\ \E rows \in TimerFiles :
            Constructed(Tuesday + 7 * Hour, "absent", TRUE, <<>>, rows)

\* a changed commands file is loaded
LoadCommands ==
    /\ pc = "run"
    /\ writes < MaxLoads
    /\ \E lines \in CommandFiles :
        /\ cmd_file' = lines
        /\ applied' = lines
        /\ Becomes(read_manual_commands(Engine, lines, now))
    /\ cmd_mtime' = cmd_mtime + 1
    /\ commands_file_timestamp' = cmd_mtime + 1
    /\ writes' = writes + 1
    /\ applied_tick' = ticks
    /\ tick_seen' = seen_now
    /\ UNCHANGED <<skipped, alone_marked, bench_vars, timer_vars, now, ticks, leak_check_counter_water, commands_file,
                   state_commands_file_timestamp, timers_file_timestamp,
                   counters_file_timestamp, cmd_exists, state_file, state_mtime,
                   timers_exists, timer_rows, timers_mtime, counters_mtime, emails, device,
                   link_ok>>

\* time passes
ClockAdvance ==
    /\ pc = "run"
    /\ now + ClockStep <= Tuesday + 7 * Hour + MaxClockSteps * ClockStep
    /\ now' = now + ClockStep
    /\ UNCHANGED <<bench_vars, timer_vars, pc, ticks, timers, isopen, all_alone, all_alone_all_time,
                   pump_isopen, disabled, disabled_faucets, disable_fertilization,
                   duration_correction, mode, monitor_leaks, old_should_be_open, count,
                   leak_check_counter_water, stamp_vars, disk_vars, env_vars, hist_vars>>

NextCommands == LoadCommands \/ ClockAdvance

SpecCommands == InitCommands /\ [][NextCommands]_vars

(***************************************************************************)
(* SpecSteps: the steps of a tick after the timer loops (pumps, status     *)
(* file, alone accounting, reconciliation, ripe timers), on timers that    *)
(* are open when the engine starts, with should_be_open() called as        *)
(* timers.py defines it                                                    *)
(***************************************************************************)

StepsStateFiles ==
    { <<>>,
      <<cmd("disable_computer", computer_name)>>,
      <<cmd("disable_line", "roses")>>,
      <<cmd("mode", "manual")>> }

StepsTimerFiles ==
    { <<WeeklyTimer(60, "roses", 3, 7, 0)>>,
      <<WeeklyTimer(60, "roses", 3, 7, 0), SingleTimer(30, "lawn", Tuesday + 7 * Hour, FALSE)>> }

InitSteps ==
    /\ tm = WeeklyTimer(60, "roses", 3, 7, 0)
    /\ t_now = 0
    /\ t_open = "unset"
    /\ idle_bench
    /\ \E lines \in StepsStateFiles, rows \in StepsTimerFiles :
            Constructed(Tuesday + 7 * Hour, "absent", TRUE, lines, rows)

NextSteps == TickPlain(MaxTicks) \/ WriteCommands \/ WriteStateFile

SpecSteps == InitSteps /\ [][NextSteps]_vars

(***************************************************************************)
(* SpecFaucet: the methods of one faucet object called in any order        *)
(***************************************************************************)

InitFaucet ==
    /\ tm = WeeklyTimer(60, "roses", 3, 7, 0)
    /\ t_now = 0
    /\ t_open = "unset"
    /\ Constructed(0, "absent", FALSE, <<>>, <<>>)
    /\ faucet_obj \in FaucetObjects
    /\ counter_obj = CounterArduino(0)
    /\ call = no_call

\* the call made on faucet_obj, with the answer ok of the relay board's port
\* and its outcome r
called(op, force, ok, r) ==
    [op |-> op, force |-> force, ret |-> r.ret, relay |-> r.relay, logged |-> r.logged,
     sent |-> r.sent, before |-> faucet_obj, port |-> ok, at |-> now, water |-> r.water,
     reading |-> r.reading]

OpenCall ==
    /\ \E force \in BOOLEAN, reading \in WaterReads, ok \in BOOLEAN :
        LET r == open_of(faucet_obj, force, reading, now, ok)
        IN  /\ faucet_obj' = r.f
            /\ call' = called("open", force, ok, r)
    /\ UNCHANGED <<timer_vars, engine_vars, stamp_vars, disk_vars, env_vars, hist_vars,
                   counter_obj>>

CloseCall ==
    /\ \E force \in BOOLEAN, reading \in WaterReads, ok \in BOOLEAN :
        LET r == close_of(faucet_obj, force, reading, now, monitor_leaks, ok)
        IN  /\ faucet_obj' = r.f
            /\ call' = called("close", force, ok, r)
    /\ UNCHANGED <<timer_vars, engine_vars, stamp_vars, disk_vars, env_vars, hist_vars,
                   counter_obj>>

\* main_loop adds a flow read for a faucet that is open and stays open
AddFlowCall ==
    /\ faucet_obj.isopen
    /\ Len(faucet_obj.flow_counts) < MaxSamples
    /\ \E cflow \in FlowReads :
        /\ faucet_obj' = add_flow_count(faucet_obj, cflow)
        /\ call' = called("add_flow_count", FALSE, TRUE, nothing_done(faucet_obj))
    /\ UNCHANGED <<timer_vars, engine_vars, stamp_vars, disk_vars, env_vars, hist_vars,
                   counter_obj>>

\* main_loop finds another faucet of the same counter wanted open as well
NotAloneCall ==
    /\ faucet_obj.isopen
    /\ faucet_obj.all_alone_all_time
    /\ faucet_obj' = [faucet_obj EXCEPT !.all_alone = FALSE, !.all_alone_all_time = FALSE]
    /\ call' = called("not_alone", FALSE, TRUE, nothing_done(faucet_obj))
    /\ UNCHANGED <<timer_vars, engine_vars, stamp_vars, disk_vars, env_vars, hist_vars,
                   counter_obj>>

FaucetClock ==
    /\ now + FaucetClockStep <= MaxFaucetClock * FaucetClockStep
    /\ now' = now + FaucetClockStep
    /\ UNCHANGED <<timer_vars, bench_vars, pc, ticks, timers, isopen, all_alone,
                   all_alone_all_time, pump_isopen, disabled, disabled_faucets,
                   disable_fertilization, duration_correction, mode, monitor_leaks,
                   old_should_be_open, count, leak_check_counter_water, stamp_vars,
                   disk_vars, env_vars, hist_vars>>

NextFaucet == OpenCall \/ CloseCall \/ AddFlowCall \/ FaucetClock

SpecFaucet == InitFaucet /\ [][NextFaucet]_vars

(***************************************************************************)
(* SpecWater: the same calls on faucets with and without a counter of      *)
(* this node, which may be found not alone on the counter while open       *)
(***************************************************************************)

WaterObjects ==
    { Faucet("lawn", computer_name, FALSE, "c1", 20, 0),
      Faucet("lawn", computer_name, FALSE, "na", 20, 0),
      Faucet("lawn", computer_name, FALSE, "none", 20, 0),
      Faucet("far", "pi2", FALSE, "c2", 20, 0) }

InitWater ==
    /\ tm = WeeklyTimer(60, "roses", 3, 7, 0)
    /\ t_now = 0
    /\ t_open = "unset"
    /\ Constructed(0, "absent", FALSE, <<>>, <<>>)
    /\ faucet_obj \in WaterObjects
    /\ counter_obj = CounterArduino(0)
    /\ call = no_call

NextWater == NextFaucet \/ NotAloneCall

SpecWater == InitWater /\ [][NextWater]_vars

(***************************************************************************)
(* SpecPumps: the pump loop of a tick applied to any set of pumps asked    *)
(* for, between reloads of the state commands file                         *)
(***************************************************************************)

MaxPumpSteps == 4

PumpStateFiles ==
    { <<>>,
      <<cmd("disable_fertilization", "fert")>>,
      <<cmd("disable_line", "roses"), cmd("disable_fertilization", "fert")>> }

InitPumps ==
    /\ tm = WeeklyTimer(60, "roses", 3, 7, 0)
    /\ t_now = 0
    /\ t_open = "unset"
    /\ idle_bench
    /\ \E lines \in PumpStateFiles :
            Constructed(Tuesday + 7 * Hour, "absent", FALSE, lines, <<>>)

\* the loop over self.pumps of one tick, fertilizer_should_be_open being to_open
PumpStep ==
    /\ pc = "run"
    /\ ticks < MaxPumpSteps
    /\ \E to_open \in SUBSET PumpNames :
        /\ Becomes(set_pumps(Engine, PumpOrder, to_open))
        /\ call' = [op |-> "set_pumps", to_open |-> to_open,
                    disabled |-> disable_fertilization, before |-> pump_isopen,
                    at |-> ticks]
    /\ ticks' = ticks + 1
    /\ UNCHANGED <<timer_vars, faucet_obj, counter_obj, now, leak_check_counter_water,
                   stamp_vars, cmd_exists, cmd_file, cmd_mtime, state_file, state_mtime,
                   timers_exists, timer_rows, timers_mtime, counters_mtime, env_vars,
                   hist_vars>>

\* a changed state commands file is loaded
LoadState ==
    /\ pc = "run"
    /\ writes < MaxLoads
    /\ \E lines \in PumpStateFiles :
        /\ state_file' = lines
        /\ Becomes(read_state_commands(Engine, lines))
    /\ state_mtime' = state_mtime + 1
    /\ state_commands_file_timestamp' = state_mtime + 1
    /\ writes' = writes + 1
    /\ UNCHANGED <<bench_vars, timer_vars, now, ticks, leak_check_counter_water, commands_file,
                   commands_file_timestamp, timers_file_timestamp, counters_file_timestamp,
                   cmd_exists, cmd_file, cmd_mtime, timers_exists, timer_rows, timers_mtime,
                   counters_mtime, emails, device, link_ok, hist_vars>>

NextPumps == PumpStep \/ LoadState

SpecPumps == InitPumps /\ [][NextPumps]_vars

(***************************************************************************)
(* SpecCounter: the methods of one CounterArduino object called in any     *)
(* order, while the device counts pulses and time passes                   *)
(***************************************************************************)

MaxCounterClock == 4
CounterClockStep == 23

\* the call made on counter_obj and its outcome r; stale: the device was
\* cleared and no count was taken from it since
counter_called(op, port_ok, reply, r, stale) ==
    [op |-> op, port |-> port_ok, reply |-> reply, ret |-> r.ret, failed |-> r.failed,
     before |-> counter_obj, stale_before |-> call.stale, stale |-> stale, at |-> now]

\* CounterArduino.__init__: the object is built and clear_count is called
InitCounter ==
    /\ tm = WeeklyTimer(60, "roses", 3, 7, 0)
    /\ t_now = 0
    /\ t_open = "unset"
    /\ Constructed(0, "absent", FALSE, <<>>, <<>>)
    /\ faucet_obj = Faucet("lawn", computer_name, FALSE, "c1", 20, 0)
    /\ \E port_ok \in BOOLEAN, reply \in Replies :
        LET r == CounterArduino_clear_count(CounterArduino(0), port_ok, reply, 0)
        IN  /\ counter_obj = r.c
            /\ call = [op |-> "init", port |-> port_ok, reply |-> reply, ret |-> r.ret,
                       failed |-> r.failed, before |-> CounterArduino(0),
                       stale_before |-> FALSE, stale |-> r.cleared /\ r.failed, at |-> 0]

GetCountCall ==
    /\ \E port_ok \in BOOLEAN, reply \in Replies :
        LET r == CounterArduino_get_count(counter_obj, port_ok, reply, device["c1"], now)
        IN  /\ counter_obj' = r.c
            /\ call' = counter_called("get_count", port_ok, reply, r, call.stale /\ r.failed)
    /\ UNCHANGED <<timer_vars, engine_vars, stamp_vars, disk_vars, env_vars, hist_vars,
                   faucet_obj>>

ClearCountCall ==
    /\ \E port_ok \in BOOLEAN, reply \in Replies :
        LET r == CounterArduino_clear_count(counter_obj, port_ok, reply, now)
        IN  /\ counter_obj' = r.c
            /\ call' = counter_called("clear_count", port_ok, reply, r,
                                      (call.stale \/ r.cleared) /\ r.failed)
            /\ device' = IF r.cleared THEN [device EXCEPT !["c1"] = 0] ELSE device
    /\ UNCHANGED <<timer_vars, engine_vars, stamp_vars, disk_vars, hist_vars, faucet_obj,
                   emails, link_ok, writes>>

\* a pulse of the water meter
PulseCounted ==
    /\ device["c1"] < MaxCount
    /\ device' = [device EXCEPT !["c1"] = @ + 1]
    /\ UNCHANGED <<bench_vars, timer_vars, engine_vars, stamp_vars, disk_vars, hist_vars,
                   emails, link_ok, writes>>

CounterClock ==
    /\ now + CounterClockStep <= MaxCounterClock * CounterClockStep
    /\ now' = now + CounterClockStep
    /\ UNCHANGED <<timer_vars, bench_vars, pc, ticks, timers, isopen, all_alone,
                   all_alone_all_time, pump_isopen, disabled, disabled_faucets,
                   disable_fertilization, duration_correction, mode, monitor_leaks,
                   old_should_be_open, count, leak_check_counter_water, stamp_vars,
                   disk_vars, env_vars, hist_vars>>

NextCounter == GetCountCall \/ ClearCountCall \/ PulseCounted \/ CounterClock

SpecCounter == InitCounter /\ [][NextCounter]_vars

(***************************************************************************)
(* SpecTimer: the timer functions applied to a timer at an instant.        *)
(***************************************************************************)

TimerStep == 15 * 60

TimerSlots == 700

TimerInputs ==
    { WeeklyTimer(60, "roses", 7, 23, 30),
      WeeklyTimer(60, "roses", 1, 23, 30),
      WeeklyTimer(30, "lawn", 5, 23, 30),
      WeeklyTimer(45, "lawn", 1, 7, 0),
      WeeklyTimer(60, "roses", 3, 7, 0),
      WeeklyTimer(10, "roses", 3, 6, 0) }

InitTimer ==
    /\ tm \in TimerInputs
    /\ t_now \in {0, 1, 10 * 60, 10 * 60 + 1}
    /\ t_open = "unset"
    /\ idle_bench
    /\ Constructed(0, "absent", FALSE, <<>>, <<>>)

TimerEval ==
    /\ t_open = "unset"
    /\ idle_bench
    /\ t_open' = IF WeeklyTimer_should_be_open(tm, t_now) THEN "True" ELSE "False"
    /\ UNCHANGED <<tm, t_now>>
    /\ UNCHANGED <<bench_vars, engine_vars, stamp_vars, disk_vars, env_vars, hist_vars>>

TimerClock ==
    /\ t_now + TimerStep <= TimerSlots * TimerStep + 1
    /\ t_now' = t_now + TimerStep
    /\ t_open' = "unset"
    /\ UNCHANGED tm
    /\ UNCHANGED <<bench_vars, engine_vars, stamp_vars, disk_vars, env_vars, hist_vars>>

NextTimer == TimerEval \/ TimerClock

SpecTimer == InitTimer /\ [][NextTimer]_vars

(***************************************************************************)
(* Claims about the timer functions                                        *)
(***************************************************************************)

Saturday == 6 * Day
NextSunday == 7 * Day
OvernightTimer == WeeklyTimer(60, "roses", 7, 23, 30)

\* t lies in [start, start + duration) of some weekly occurrence of timer t0
InWeeklyWindow(t0, t) ==
    \E w \in -1..2 :
        LET start == w * Week + (t0.start_day - 1) * Day + t0.hour * Hour + t0.minute * 60
        IN  start <= t /\ t < start + t0.duration * 60

\* C3: an overnight Weekly timer should be open at every instant of
\* [start, start + duration), the part after midnight included: the timer
\* Saturday 23:30 for 60 minutes is open at Saturday 23:45 and at Sunday 00:15
\* and not at Sunday 00:45.
C3_OvernightOpenAcrossMidnight ==
    (tm = OvernightTimer /\ t_open # "unset") =>
        /\ (t_now = Saturday + 23 * Hour + 45 * 60 => t_open = "True")
        /\ (t_now = NextSunday + 15 * 60 => t_open = "True")
        /\ (t_now = NextSunday + 45 * 60 => t_open = "False")
        /\ (InWeeklyWindow(tm, t_now) => t_open = "True")

\* C4: should_be_open of a Weekly timer at t equals should_be_open at t plus
\* exactly one week.
C4_WeekShiftInvariant ==
    t_open # "unset" =>
        ((t_open = "True") <=> WeeklyTimer_should_be_open(tm, t_now + Week))

C4_Witness == t_open = "True" /\ tm.overnight /\ t_now > Day

(***************************************************************************)
(* Claims about the engine                                                 *)
(***************************************************************************)

\* a tick has been started, and it is the last thing the engine did
ticked == tick_seen.tick >= 0

\* the last tick ran to its end
tick_completed == ticked /\ pc = "run" /\ ticks = tick_seen.tick + 1

\* the commands of the last load were applied before the last tick started
tick_after_commands == ticked /\ applied_tick >= 0 /\ tick_seen.tick > applied_tick

\* the desired-open set of the last tick
last_desired == desired_open(tick_seen.timers, tick_seen.mode, tick_seen.at)

\* reconciliation does not open a faucet of this node that is disabled
blocked(f) == is_local(f) /\ (disabled \/ f \in disabled_faucets)

\* C1: after every tick, every faucet is open if and only if its name is in
\* that tick's desired-open set and it is not blocked by the disabled flag or
\* by disabled_faucets.
C1_OpenIffDesiredAndNotBlocked ==
    ticked => \A f \in FaucetNames : isopen[f] <=> (f \in last_desired /\ ~blocked(f))

\* number of lines of the action log that report action on faucet f
log_count(log, action, f) ==
    Cardinality({i \in 1..Len(log) : log[i].action = action /\ log[i].faucet = f})

RECURSIVE closed_by(_)
\* the faucets closed by the commands of a file and not named by a later open
closed_by(lines) ==
    IF lines = <<>> THEN {}
    ELSE LET c == lines[Len(lines)]
             before == closed_by(SubSeq(lines, 1, Len(lines) - 1))
         IN  CASE c.verb = "close" /\ c.arg \in FaucetNames -> before \cup {c.arg}
               [] c.verb = "closeall" -> FaucetNames
               [] c.verb = "disable" /\ c.arg = computer_name -> FaucetNames
               [] c.verb = "open" -> before \ {c.arg}
               [] OTHER -> before

\* a Weekly timer of faucet f triggers at the last tick
weekly_trigger(f) ==
    \E i \in 1..Len(tick_seen.timers) :
        /\ tick_seen.timers[i].timer_type = "weekly"
        /\ tick_seen.timers[i].faucet = f
        /\ WeeklyTimer_should_be_open(tick_seen.timers[i], tick_seen.at)

C5_HalfDurationOpen ==
    \A i \in 1..Len(tick_seen.timers) :
        LET t == tick_seen.timers[i]
            start == combine(date_of(tick_seen.at), t.hour, t.minute)
        IN  ( /\ ticked
              /\ tick_seen.correction = 50
              /\ tick_seen.mode = "auto"
              /\ t.timer_type = "weekly"
              /\ ~t.overnight
              /\ sane_day(tick_seen.at) = t.start_day
              /\ start <= tick_seen.at
              /\ tick_seen.at < start + (t.duration * 60 * tick_seen.correction) \div 100
              /\ ~blocked(t.faucet) )
            => isopen[t.faucet]

\* C6: two consecutive open commands for the same faucet give exactly one
\* 'opened' entry for it in the action log.
C6_OneOpenedEntry ==
    (applied = <<cmd("open", "roses"), cmd("open", "roses")>> /\ tick_after_commands)
        => log_count(actions_log, "opened", "roses") = 1

\* the engine has just been constructed
constructed == pc = "run" /\ ticks = 0 /\ ~ticked

\* C7: with disabled = True in the node's ini, the engine constructed from
\* that ini has its disabled flag set.
C7_DisabledSurvivesInit ==
    (constructed /\ ini_disabled = "True") => disabled

\* C8: after 'open roses' is applied the status file holds roses within one
\* tick; after 'close roses' is applied the status file is empty and no
\* manual Single timer of roses is left in the timer list.
C8_StatusFollowsCommands ==
    /\ (applied = <<cmd("open", "roses")>> /\ tick_after_commands)
            => (status_writes > 0 /\ status_file = {"roses"})
    /\ (applied = <<cmd("close", "roses")>> /\ applied_tick >= 0)
            => /\ status_file = {}
               /\ \A i \in 1..Len(timers) :
                    ~(is_manual_single(timers[i]) /\ timers[i].faucet = "roses")

\* the last tick made a leak check
leak_checked_now == tick_completed /\ tick_seen.tick % leak_check_interval = 0

\* the reads kept for counter c are four, each greater than the one before
four_rising(c) ==
    /\ Len(leak_check_counter_water[c]) = 4
    /\ \A i \in 1..3 : leak_check_counter_water[c][i + 1] > leak_check_counter_water[c][i]

\* C10: leak checks are made every 300 ticks; at a leak check 'leak detected'
\* is sent for a counter of this node if and only if the reads kept for it (at
\* most 4) are 4 reads with three strictly positive successive deltas, so not
\* before the fourth check.
C10_LeakIffFourRisingReads ==
    /\ \A c \in CounterNames : Len(leak_check_counter_water[c]) <= 4
    /\ tick_completed =>
         \A c \in CounterNames :
            c \in emails <=> (leak_checked_now /\ four_rising(c))
    /\ (tick_completed /\ tick_seen.tick < 3 * leak_check_interval) => emails = {}

C10_Witness ==
    /\ leak_checked_now
    /\ tick_seen.tick = 3 * leak_check_interval
    /\ leak_check_counter_water["c1"] = <<0, 1, 2, 3>>
    /\ emails = {"c1"}

(***************************************************************************)
(* Claims about the state overrides and the hot reload                     *)
(***************************************************************************)

\* the state-override fields at their defaults
defaults(st) ==
    [st EXCEPT !.disabled = FALSE, !.disabled_faucets = {}, !.disable_fertilization = {},
               !.duration_correction = 100, !.monitor_leaks = FALSE, !.mode = "auto"]

\* the last tick reloaded the state commands file
state_reloaded == tick_completed /\ tick_seen.state_stamp # state_commands_file_timestamp

\* the state commands file on disk is the one loaded last, and nothing ran since
state_loaded ==
    /\ constructed \/ state_reloaded
    /\ state_commands_file_timestamp = state_mtime

\* the fields obtained by applying the lines on disk to the defaults
overrides_of_file == state_lines(defaults(Engine), state_file)

\* C11: after a reload of the state commands file, disabled, disabled_faucets,
\* disable_fertilization, duration_correction, monitor_leaks and mode have the
\* values given by applying the file's lines in order to the defaults,
\* whatever they were before; a line taken out of the file gives its field
\* the default again.
C11_ReloadStartsFromDefaults ==
    (state_reloaded /\ state_loaded) =>
        /\ disabled = overrides_of_file.disabled
        /\ disabled_faucets = overrides_of_file.disabled_faucets
        /\ disable_fertilization = overrides_of_file.disable_fertilization
        /\ duration_correction = overrides_of_file.duration_correction
        /\ monitor_leaks = overrides_of_file.monitor_leaks
        /\ mode = overrides_of_file.mode

\* C12: the state line 'monitor_leaks True' sets monitor_leaks to true and
\* 'monitor_leaks False' sets it to false.
C12_MonitorLeaksLine ==
    /\ (state_loaded /\ state_file = <<cmd("monitor_leaks", "True")>>) => monitor_leaks
    /\ (state_loaded /\ state_file = <<cmd("monitor_leaks", "False")>>) => ~monitor_leaks

\* the last tick applied the commands file
applied_now == applied_tick = tick_seen.tick

\* C13: a tick applies the commands file exactly when the file's mtime differs
\* from the mtime kept at the last application; the lines are applied once
\* and the mtime is kept, so an unchanged file is not applied again.
C13_AppliedOnMtimeChange ==
    (tick_completed /\ tick_seen.cmd_exists) =>
        /\ applied_now <=> (tick_seen.cmd_stamp # tick_seen.cmd_mtime)
        /\ commands_file_timestamp = tick_seen.cmd_mtime
        /\ (applied_now /\ cmd_mtime = tick_seen.cmd_mtime) => applied = cmd_file

\* C14: while the commands file is absent, ticks go on and apply nothing;
\* once the file has been created, or created again, a tick applies it.
C14_AbsentThenCreated ==
    tick_completed =>
        /\ ~tick_seen.cmd_exists => ~applied_now
        /\ (tick_seen.cmd_exists /\ tick_seen.cmd_stamp # tick_seen.cmd_mtime) => applied_now

\* C15: a tick whose hot-reload step finds the mtime of the timers file or of
\* the counters file changed rebuilds the collection and keeps the new mtime.
C15_ChangedFileReloaded ==
    tick_completed =>
        /\ timers_file_timestamp = tick_seen.timers_mtime
        /\ counters_file_timestamp = tick_seen.counters_mtime

\* C16: a tick that finds the timers file missing keeps the timers it had and
\* the loop goes on with the next tick.
C16_MissingFileKeepsState ==
    (ticked /\ ~tick_seen.timers_exists /\ tick_seen.timers = <<>>) =>
        /\ pc # "crashed"
        /\ pc = "run" => ticks = tick_seen.tick + 1

\* C17: a timer row whose type is neither weekly nor single is skipped at
\* load, and the loop stops only through the quit command.
C17_OnlyQuitStopsLoop ==
    /\ \A i \in 1..Len(timers) : timers[i].timer_type # "generic"
    /\ pc # "crashed"

\* C19: the desired-open set of a tick is the set of the faucets of the
\* timers that should be open, Weekly timers left out in manual mode, and a
\* faucet is open only if it is in it.
C19_DesiredSetOfTick ==
    ticked =>
        /\ old_should_be_open = last_desired
        /\ \A f \in FaucetNames : isopen[f] => f \in last_desired

\* C20: after a tick, a pump whose fertilization is not disabled is open
\* exactly when some timer that should be open asks for it (fertilize = yes,
\* at least 10 minutes left) and none requires it closed.
C20_FertilizerDecision ==
    ticked =>
        \A p \in PumpNames \ disable_fertilization :
            pump_isopen[p] <=> p \in fertilizer_should_be_open(tick_seen.timers, tick_seen.at)

(***************************************************************************)
(* Claims about the timer list                                             *)
(***************************************************************************)

\* the timers of a list that are not manual Single timers, in order
file_timers(ts) ==
    LET not_manual(t) == ~is_manual_single(t)
    IN  SelectSeq(ts, not_manual)

\* number of manual Single timers of faucet f in a list
manual_count(ts, f) ==
    Cardinality({i \in 1..Len(ts) : is_manual_single(ts[i]) /\ ts[i].faucet = f})

\* the commands applied last hold a close of f, a closeall or a disable of this node
closing_command(f) ==
    \E i \in 1..Len(applied) :
        \/ applied[i].verb = "close" /\ applied[i].arg = f
        \/ applied[i].verb = "closeall"
        \/ applied[i].verb = "disable" /\ applied[i].arg = computer_name

\* C18: no command removes a Weekly timer or a Single timer that is not
\* manual; a manual Single timer is removed by a command only if the command
\* is a close of its faucet, a closeall or a disable of this node; a tick
\* removes a timer only if it is a Single timer and now > end_datetime.
C18_TimerLifecycle ==
    /\ ticked => file_timers(timers) = file_timers(tick_seen.timers)
    /\ \A f \in FaucetNames :
        (ticked /\ manual_count(timers, f) < manual_count(tick_seen.timers, f))
            => closing_command(f)
    /\ \A i \in 1..Len(timers) :
        should_remove(timers[i], now) <=>
            (timers[i].timer_type = "single" /\ now > timers[i].end_datetime)

C18_Witness ==
    /\ applied = <<cmd("close", "roses")>>
    /\ manual_count(tick_seen.timers, "roses") = 2
    /\ manual_count(timers, "roses") = 0
    /\ Len(file_timers(timers)) = 2
    /\ \E i \in 1..Len(timers) : should_remove(timers[i], now)

(***************************************************************************)
(* Claims about the faucet objects                                         *)
(***************************************************************************)

\* the last call was a close that went past its early return
closed_now == call.op = "close" /\ call.logged # <<>>

\* the median flow of the session the last call closed, in halves
closed_median == get_median_flow(call.before)

too_high(f, med_flow) ==
    f.normal_flow > 0 /\ (\/ med_flow * 100 > f.normal_flow * 230
                          \/ med_flow > 2 * f.normal_flow + 8)

too_low(f, med_flow) ==
    f.normal_flow > 0 /\ (\/ med_flow * 10 < f.normal_flow * 16
                          \/ med_flow < 2 * f.normal_flow - 8)

high_sent == notice("high flow for faucet", call.before) \in call.sent
low_sent == notice("low flow for faucet", call.before) \in call.sent

\* C22 as stated: on close of a faucet a high-flow notification is sent iff
\* normal_flow > 0 and the median flow is above normal_flow * 1.15 or above
\* normal_flow + 4, and a low-flow notification iff normal_flow > 0 and the
\* median flow is below normal_flow * 0.8 or below normal_flow - 4 (read
\* for a close that has a median flow).
C22_FlowNoticeIffOutOfBand ==
    (closed_now /\ closed_median > -2) =>
        /\ high_sent <=> too_high(call.before, closed_median)
        /\ low_sent <=> too_low(call.before, closed_median)

\* Faucet.close looks at the flow only for a faucet whose counter is on this
\* node, with monitor_leaks off, more than 120 seconds after the faucet was
\* opened, and when it has a median flow
flow_looked_at ==
    /\ get_faucet_counter(call.before)
    /\ ~monitor_leaks
    /\ call.at - call.before.open_time > 120
    /\ closed_median > -2

\* C22 (amended): on a close that is carried out, the high-flow and low-flow
\* notifications are sent iff the flow is looked at and is out of the band
\* of normal_flow; a faucet with normal_flow <= 0 never gets one; with
\* normal_flow = 20 and flow samples 28, 29, 30 the close sends 'high flow
\* for faucet lawn'.  Outside a close no flow notification is sent.
C22_FlowNoticeWhenLookedAt ==
    /\ closed_now =>
        /\ high_sent <=> (flow_looked_at /\ too_high(call.before, closed_median))
        /\ low_sent <=> (flow_looked_at /\ too_low(call.before, closed_median))
        /\ call.before.normal_flow <= 0 => ~high_sent /\ ~low_sent
        /\ (/\ flow_looked_at
            /\ call.before.normal_flow = 20
            /\ call.before.flow_counts = <<28, 29, 30>>) => high_sent /\ ~low_sent
    /\ ~closed_now => ~high_sent /\ ~low_sent

C22_Witness ==
    /\ closed_now
    /\ call.before.name = "lawn"
    /\ call.before.normal_flow = 20
    /\ call.before.flow_counts = <<28, 29, 30>>
    /\ call.sent = {notice("high flow for faucet", call.before)}
    /\ faucet_obj.flow_counts = <<>>

\* C23: a relay write is issued only for a faucet of this node that is not
\* read-only; an open or close of a faucet of another node writes nothing to
\* the relay board, changes the object only, and logs 'remotely opened' or
\* 'remotely closed'.
C23_RelayOnlyForOwnFaucets ==
    /\ call.relay # <<>> =>
        object_is_local(call.before) /\ ~call.before.read_only
    /\ (call.op \in {"open", "close"} /\ ~object_is_local(call.before)) =>
        /\ call.relay = <<>>
        /\ \A i \in 1..Len(call.logged) :
            call.logged[i] = (IF call.op = "open" THEN "remotely opened"
                              ELSE "remotely closed")
        /\ call.logged # <<>> => faucet_obj.isopen = (call.op = "open")

C23_Witness ==
    /\ call.op = "open"
    /\ call.before.cls = "NumatoFaucet"
    /\ ~object_is_local(call.before)
    /\ ~call.port
    /\ call.logged = <<"remotely opened">>
    /\ call.relay = <<>>
    /\ faucet_obj.isopen /\ ~call.before.isopen

\* the relay write of the last call failed
relay_write_failed == call.relay # <<>> /\ ~call.relay[1].ok

\* C29 as stated: when the relay write of an open or close fails, the call
\* returns False and isopen reflects the attempted state: true after a
\* failed open, false after a failed close.
C29_FailedWriteKeepsAttempt ==
    relay_write_failed =>
        /\ call.ret = FALSE
        /\ faucet_obj.isopen = (call.op = "open")

\* C29 (amended): when the relay write of an open or close fails, the call
\* returns False and isopen is the opposite of the attempted state: false
\* after a failed open, true after a failed close.
C29_FailedWriteUndone ==
    relay_write_failed =>
        /\ call.ret = FALSE
        /\ faucet_obj.isopen = (call.op = "close")

C29_Witness ==
    /\ relay_write_failed
    /\ call.op = "close"
    /\ call.before.isopen
    /\ call.logged = <<"closed">>
    /\ faucet_obj.isopen
    /\ ~call.ret

(***************************************************************************)
(* Claims about the window of a timer (SpecTimer)                          *)
(***************************************************************************)

TenMinuteTimer == WeeklyTimer(10, "roses", 3, 6, 0)

\* the start of the window of timer tm on the date of t_now
window_start == combine(date_of(t_now), tm.hour, tm.minute)

\* should_be_open was evaluated for a same-day timer on its weekday, so that
\* its answer is the answer of time_in_range
in_range_asked == t_open # "unset" /\ ~tm.overnight /\ sane_day(t_now) = tm.start_day

\* C28 as stated: time_in_range(h, m, duration, t) is true exactly for t in
\* the half-open interval [start, start + duration), start being the date of
\* t at h:m; it is false at t = start + duration, so the Weekly timer starting
\* 06:00 with duration 10 is no longer wanted open at 06:10:00.
C28_HalfOpenWindow ==
    in_range_asked =>
        ((t_open = "True") <=>
            (window_start <= t_now /\ t_now < window_start + tm.duration * 60))

\* C28 amended: time_in_range(h, m, duration, t) is true exactly for t in the
\* closed interval [start, start + duration]; it is still true at
\* t = start + duration, so the Weekly timer starting 06:00 with duration 10
\* is still wanted open at 06:10:00 and is not wanted open from 06:10:01.
C28_ClosedWindow ==
    in_range_asked =>
        /\ (t_open = "True") <=>
               (window_start <= t_now /\ t_now <= window_start + tm.duration * 60)
        /\ (tm = TenMinuteTimer /\ t_now = Tuesday + 6 * Hour + 10 * 60)
               => t_open = "True"
        /\ (tm = TenMinuteTimer /\ t_now = Tuesday + 6 * Hour + 10 * 60 + 1)
               => t_open = "False"

C28_Witness ==
    /\ tm = TenMinuteTimer
    /\ t_now = Tuesday + 6 * Hour + 10 * 60
    /\ t_open = "True"

(***************************************************************************)
(* Claims about the status file and the overrides (Spec)                   *)
(***************************************************************************)

\* C24: after every tick the status file holds the desired-open set of that
\* tick; it is rewritten on exactly the ticks whose desired-open set differs
\* from the set of the tick before.
C24_StatusFileIsDesiredSet ==
    ticked => status_file = last_desired

\* C25: a 'set_percent N%' line is applied, as duration_correction = N / 100,
\* only when 0 < N <= 1000; for any other N the line is skipped and
\* duration_correction keeps its default; duration_correction is always
\* within [0, 10] (here in percent: within 0..1000).
C25_PercentAppliedInRange ==
    /\ duration_correction \in 0..1000
    /\ \A s \in {"50%", "0%"} :
          (state_loaded /\ state_file = <<cmd("set_percent", s)>>) =>
              duration_correction = IF 0 < percent_of(s) /\ percent_of(s) <= 1000
                                    THEN percent_of(s) ELSE 100

\* C26: the arguments of the state lines are names taken as they are
\* written, upper-case letters included: after 'disable_line Lawn' the
\* faucet named Lawn is the disabled one, and no other.
C26_NamesAsWritten ==
    (state_loaded /\ state_file = <<cmd("disable_line", "Lawn")>>) =>
        disabled_faucets = {"Lawn"}

\* C27: after 'disable <own node>' is applied the node stays disabled, with
\* every faucet and pump closed, until 'enable <own node>' is applied; a
\* reload of a state commands file without a disable_computer line does not
\* enable it.
C27_DisabledUntilEnabled ==
    (applied = <<cmd("disable", computer_name)>> /\ applied_tick >= 0) =>
        /\ disabled
        /\ \A f \in FaucetNames : ~isopen[f]
        /\ \A p \in PumpNames : ~pump_isopen[p]

(***************************************************************************)
(* Claims about the pump loop (SpecPumps)                                  *)
(***************************************************************************)

\* a pump loop was the last thing done to the pumps
pumps_set == call.op = "set_pumps"

\* C21: a pump whose name is in disable_fertilization is never opened by the
\* pump loop of a tick: a pump that was closed before the loop and is in the
\* set is closed after it, whether or not it was asked for.
C21_DisabledPumpNotOpened ==
    pumps_set =>
        \A p \in PumpNames :
            (p \in call.disabled /\ ~call.before[p]) => ~pump_isopen[p]

C21_Witness ==
    /\ pumps_set
    /\ "fert" \in call.to_open
    /\ "fert" \in call.disabled
    /\ ~call.before["fert"]
    /\ ~pump_isopen["fert"]
    /\ call.at > 0

(***************************************************************************)
(* Claims about the counter object (SpecCounter)                           *)
(***************************************************************************)

\* the last call was a read of the counter
count_read == call.op = "get_count"

\* C30: a read that fails (the serial port cannot be opened, nothing comes
\* back within the timeout, or what comes back is no decimal number) returns
\* the count stored before and leaves count, flow, last_water_read and
\* last_water_time as they were; so, the device never counting down, a read
\* never returns less than the read before it, unless the device was cleared
\* by clear_count since the last count taken from it.
C30_FailedReadKeepsCount ==
    count_read =>
        /\ call.failed =>
               /\ call.ret = call.before.count
               /\ counter_obj.count = call.before.count
               /\ counter_obj.flow = call.before.flow
               /\ counter_obj.last_water_read = call.before.last_water_read
               /\ counter_obj.last_water_time = call.before.last_water_time
        /\ ~call.stale_before => call.ret >= call.before.count

C30_Witness ==
    /\ count_read
    /\ call.failed
    /\ call.reply = "garbage"
    /\ call.before.serial = "open"
    /\ call.before.count > 0
    /\ call.before.flow.num > 0
    /\ device["c1"] > call.before.count
    /\ call.ret = call.before.count

\* the flow fields of the counter differ from what they were before the last call
flow_fields_changed ==
    \/ counter_obj.flow # call.before.flow
    \/ counter_obj.last_water_read # call.before.last_water_read
    \/ counter_obj.last_water_time # call.before.last_water_time

\* seconds between last_water_time and the last call
elapsed_seconds == call.at - call.before.last_water_time

\* C31: flow, last_water_read and last_water_time change only on a successful
\* read made more than 45 s after last_water_time, and then flow is
\* (count - last_water_read) * 60 / elapsed_seconds; on the first such read,
\* last_water_read being unset, it is seeded with the count read, so that the
\* flow is 0.
C31_FlowUpdatedAfterInterval ==
    /\ flow_fields_changed => (~call.failed /\ elapsed_seconds > 45)
    /\ (~call.failed /\ elapsed_seconds > 45) =>
          /\ counter_obj.last_water_time = call.at
          /\ counter_obj.last_water_read = counter_obj.count
          /\ counter_obj.flow.den = elapsed_seconds
          /\ counter_obj.flow.num =
                IF call.before.last_water_read = -1 THEN 0
                ELSE (counter_obj.count - call.before.last_water_read) * 60

C31_Witness ==
    /\ count_read
    /\ ~call.failed
    /\ call.before.last_water_read = -1
    /\ elapsed_seconds > 45
    /\ call.ret > 0
    /\ counter_obj.flow = [num |-> 0, den |-> elapsed_seconds]
    /\ counter_obj.last_water_read = call.ret

(***************************************************************************)
(* Claims about the water of a session (SpecWater)                         *)
(***************************************************************************)

\* the counter of the closed faucet is in the counter map of the node
counter_present == get_faucet_counter(call.before)

\* C32: the total water of a faucet is the count of its counter minus
\* start_water when it was alone all the time and its counter is in the
\* counter map of the node; otherwise the median flow times the minutes it
\* was open (whole litres) when it has flow samples; and -1 when it has
\* neither, in particular for every faucet whose counter name is not in the
\* counter map.
C32_TotalWater ==
    closed_now =>
        /\ call.water =
              IF call.before.all_alone_all_time /\ counter_present
              THEN call.reading - call.before.start_water
              ELSE IF closed_median > -2
              THEN (closed_median * (call.at - call.before.open_time)) \div 120
              ELSE -1
        /\ ~counter_present => call.water = -1

(***************************************************************************)
(* Claims about the action log and the steps of a tick                     *)
(***************************************************************************)

\* the entries of the action log that say faucet f was opened or closed
moves_of(f) ==
    SelectSeq(actions_log, LAMBDA e : e.faucet = f /\ e.action \in {"opened", "closed"})

\* C36: in the action log the 'opened' and 'closed' entries of every faucet
\* alternate, starting with 'opened': a 'closed faucet X' entry is written
\* only when X was open, also when close_all runs (reloads, closeall,
\* disable, quit).
C36_OpenedClosedAlternate ==
    \A f \in FaucetNames :
        \A i \in 1..Len(moves_of(f)) :
            moves_of(f)[i].action = IF i % 2 = 1 THEN "opened" ELSE "closed"

\* C40: when 'open roses' is applied in the reload step of tick k, the node is
\* not disabled, roses is not in disabled_faucets and nothing closes it or
\* reloads the timers, roses is open at the end of tick k + 1 and stays open
\* until its default duration has passed.
C40_ManualOpenWithinOneTick ==
    (/\ applied = <<cmd("open", "roses")>>
     /\ applied_tick >= 0
     /\ tick_seen.tick > applied_tick
     /\ tick_seen.timers_stamp = tick_seen.timers_mtime
     /\ tick_seen.timers # <<>>
     /\ tick_seen.at <= tick_seen.timers[Len(tick_seen.timers)].end_datetime
     /\ ~disabled
     /\ "roses" \notin disabled_faucets)
        => isopen["roses"]

irrigating_at(c, k) ==
    \E f \in desired_open(timer_rows, tick_seen.mode, tick_seen.at - tick_seen.tick + k) :
        faucet_counter(f) = c

====
